---- MODULE Spec2Model ----
(***************************************************************************)
(* Model of the Catapult "Window Commander" plugin                         *)
(* (catapult_window_commander.py): the D-Bus helper WindowCommanderDBus    *)
(* and the plugin WindowCommander with its search and launch handlers.     *)
(*                                                                         *)
(* Python str values are sequences of one-character strings, so that       *)
(* lower(), strip(), find(), startswith(), split() and int() are computed. *)
(* Python int values are records [neg, digits] (sign and decimal digits    *)
(* without leading zeros): window ids reach past 2^32, which the 32-bit    *)
(* integers of the model checker cannot hold.                              *)
(* None is the empty sequence and a present value x is <<x>>.              *)
(***************************************************************************)
EXTENDS Integers, Sequences, FiniteSets, TLC

VARIABLES
    proxy,        \* WindowCommanderDBus._proxy: "connected", or "none" for None
    connects,     \* how many times a connection to the bus was attempted
    extWindows,   \* the windows the extension has open, in the order List gives
    busUsed,      \* whether any remote call was ever made
    lastOp,       \* the handler the launcher called last: "search", "launch"; "none" when idle
    lastArg,      \* its query or result id
    lastCalls,    \* the remote calls it made, in order, each with the bus's reply
    lastFetched,  \* what get_all_windows_with_details returned to it
    lastResults,  \* the results it yielded, in order
    lastRaised    \* the exception that escaped it, or "none"

vars == <<proxy, connects, extWindows, busUsed,
          lastOp, lastArg, lastCalls, lastFetched, lastResults, lastRaised>>

\* Largest number of windows the extension has open at once.
MaxWindows == 2

\* ------------------------------------------------------------------------
\* Python values
\* ------------------------------------------------------------------------

None == << >>

Some(x) == <<x>>

SetMin(S) == CHOOSE m \in S : \A k \in S : m <= k

SetMax(S) == CHOOSE m \in S : \A k \in S : m >= k

UpperChars == <<"A", "B", "C", "D", "E", "F", "G", "H", "I", "J", "K", "L", "M", "N", "O", "P", "Q", "R", "S", "T", "U", "V", "W", "X", "Y", "Z">>

LowerChars == <<"a", "b", "c", "d", "e", "f", "g", "h", "i", "j", "k", "l", "m", "n", "o", "p", "q", "r", "s", "t", "u", "v", "w", "x", "y", "z">>

DigitChars == <<"0", "1", "2", "3", "4", "5", "6", "7", "8", "9">>

Whitespace == {" ", "\t", "\n"}

\* str.lower(), one character
LowerChar(c) ==
    IF \E i \in 1..Len(UpperChars) : UpperChars[i] = c
    THEN LowerChars[CHOOSE i \in 1..Len(UpperChars) : UpperChars[i] = c]
    ELSE c

\* str.lower()
Lower(s) == [i \in 1..Len(s) |-> LowerChar(s[i])]

\* str.strip()
Strip(s) ==
    LET solid == {i \in 1..Len(s) : s[i] \notin Whitespace}
    IN  IF solid = {} THEN << >> ELSE SubSeq(s, SetMin(solid), SetMax(solid))

\* str.startswith(prefix)
StartsWith(s, prefix) ==
    Len(prefix) <= Len(s) /\ SubSeq(s, 1, Len(prefix)) = prefix

\* Find as str.rfind: the position of the last occurrence
FindLast(s, sub) ==
    LET hits == {i \in 0..(Len(s) - Len(sub)) : SubSeq(s, i + 1, i + Len(sub)) = sub}
    IN  IF hits = {} THEN -1 ELSE SetMax(hits)

\* str.find(sub): the 0-based position of the first occurrence, or -1
Find(s, sub) ==
    LET hits == {i \in 0..(Len(s) - Len(sub)) : SubSeq(s, i + 1, i + Len(sub)) = sub}
    IN  IF hits = {} THEN -1 ELSE SetMin(hits)

\* str.split(sep) for a one-character separator
RECURSIVE Split(_, _)
Split(s, sep) ==
    LET at == {i \in 1..Len(s) : s[i] = sep}
    IN  IF at = {} THEN <<s>>
        ELSE <<SubSeq(s, 1, SetMin(at) - 1)>>
             \o Split(SubSeq(s, SetMin(at) + 1, Len(s)), sep)

IsDigit(c) == \E i \in 1..Len(DigitChars) : DigitChars[i] = c

DigitVal(c) == (CHOOSE i \in 1..Len(DigitChars) : DigitChars[i] = c) - 1

PyInt(neg, digits) == [neg |-> neg, digits |-> digits]

\* decimal digits without their leading zeros (at least one digit is kept)
DropLeadingZeros(ds) ==
    LET nz == {i \in 1..Len(ds) : ds[i] # "0"}
    IN  IF nz = {} THEN <<"0">> ELSE SubSeq(ds, SetMin(nz), Len(ds))

\* int(s): ok is FALSE where Python raises ValueError
IntParse(s) ==
    LET t      == Strip(s)
        signed == t # << >> /\ t[1] \in {"+", "-"}
        body   == IF signed THEN SubSeq(t, 2, Len(t)) ELSE t
        wellformed ==
            /\ body # << >>
            /\ \A i \in 1..Len(body) : IsDigit(body[i]) \/ body[i] = "_"
            /\ body[1] # "_"
            /\ body[Len(body)] # "_"
            /\ \A i \in 1..(Len(body) - 1) : ~(body[i] = "_" /\ body[i + 1] = "_")
        digits == DropLeadingZeros(SelectSeq(body, IsDigit))
    IN  IF wellformed
        THEN [ok |-> TRUE,
              val |-> PyInt(signed /\ t[1] = "-" /\ digits # <<"0">>, digits)]
        ELSE [ok |-> FALSE, val |-> PyInt(FALSE, <<"0">>)]

\* str(n), as the f-strings of search format a window id
Format(n) == (IF n.neg THEN <<"-">> ELSE << >>) \o n.digits

\* Truthy as "x is not None": the id 0 passes
TruthyNotNone(opt) == opt # None

\* bool(x) of an optional int: None and 0 are falsy
Truthy(opt) == opt # None /\ opt[1].digits # <<"0">>

\* dict.get(key, default)
Get(opt, default) == IF opt = None THEN default ELSE opt[1]

\* ------------------------------------------------------------------------
\* GLib.Variant("u", n): an unsigned 32-bit integer
\* ------------------------------------------------------------------------

\* G_MAXUINT32 = 2^32 - 1, in decimal digits
U32MaxDigits == <<"4", "2", "9", "4", "9", "6", "7", "2", "9", "5">>

RECURSIVE DigitsLeq(_, _)
\* a <= b for two digit strings of the same length
DigitsLeq(a, b) ==
    IF a = << >> THEN TRUE
    ELSE IF DigitVal(a[1]) # DigitVal(b[1]) THEN DigitVal(a[1]) < DigitVal(b[1])
    ELSE DigitsLeq(Tail(a), Tail(b))

InU32(n) ==
    /\ ~n.neg
    /\ \/ Len(n.digits) < Len(U32MaxDigits)
       \/ Len(n.digits) = Len(U32MaxDigits) /\ DigitsLeq(n.digits, U32MaxDigits)

\* ok is FALSE where the constructor raises OverflowError (PyGObject refuses a
\* value outside 0..G_MAXUINT32 for the type "u")
VariantU(n) == [ok |-> InU32(n), v |-> [type |-> "u", value |-> n]]

VariantB(b) == [type |-> "b", value |-> b]

\* ------------------------------------------------------------------------
\* The extension behind the bus: its windows and its replies
\* ------------------------------------------------------------------------

Details(id, title, wm_class, maximized) ==
    [id |-> id, title |-> title, wm_class |-> wm_class, maximized |-> maximized]

\* One open window: the id its List entry carries and what GetDetails returns.
Window(id, details) == [id |-> id, details |-> details]

WinFox  == Window(Some(PyInt(FALSE, <<"2">>)),
                  Details(Some(PyInt(FALSE, <<"2">>)), Some(<<"F", "o", "x">>), Some(<<"W", "e", "b">>), Some(0)))

WinTerm == Window(Some(PyInt(FALSE, <<"1">>)),
                  Details(Some(PyInt(FALSE, <<"1">>)), Some(<<"a", "T", "e", "r", "m">>), Some(<<"x", "f", "o", "x">>), Some(2)))

WinZero == Window(Some(PyInt(FALSE, <<"0">>)),
                  Details(Some(PyInt(FALSE, <<"0">>)), Some(<<"F", "o", "x">>), Some(<<"W", "e", "b">>), Some(0)))

WinBare == Window(Some(PyInt(FALSE, <<"4", "2", "9", "4", "9", "6", "7", "2", "9", "5">>)),
                  Details(Some(PyInt(FALSE, <<"4", "2", "9", "4", "9", "6", "7", "2", "9", "5">>)), None, None, None))

WinAnon == Window(Some(PyInt(FALSE, <<"5">>)),
                  Details(None, Some(<<"F", "o", "x">>), Some(<<"W", "e", "b">>), Some(1)))

Catalog == <<WinFox, WinTerm, WinZero, WinBare, WinAnon>>

RECURSIVE Pick(_, _)
\* the windows of the catalog at the positions S, in catalog order
Pick(S, from) ==
    IF from > Len(Catalog) THEN << >>
    ELSE (IF from \in S THEN <<Catalog[from]>> ELSE << >>) \o Pick(S, from + 1)

WindowLists ==
    {Pick(S, 1) : S \in {T \in SUBSET (1..Len(Catalog)) : Cardinality(T) <= MaxWindows}}

\* error: call_sync raises GLib.Error; empty: an empty string comes back;
\* garbage: text that is no JSON; ok: the JSON document asked for
ReplyKinds == {"ok", "error", "empty", "garbage"}

JsonDumps(doc) == [chars |-> "json", doc |-> doc]

\* json.loads(text): ok is FALSE where it raises JSONDecodeError
JsonLoads(text) == [ok |-> text.chars = "json", doc |-> text.doc]

BusReply(kind, doc) ==
    [kind   |-> kind,
     raises |-> kind = "error",
     text   |-> IF kind = "ok" THEN JsonDumps(doc) ELSE [chars |-> kind, doc |-> << >>]]

\* List: one entry per window, carrying its id
ExtList(ws) == [i \in 1..Len(ws) |-> [id |-> ws[i].id]]

\* GetDetails(n): the details of the window listed with id n
ExtGetDetails(ws, n) ==
    ws[SetMin({i \in 1..Len(ws) : ws[i].id = Some(n)})].details

\* ------------------------------------------------------------------------
\* WindowCommanderDBus
\* ------------------------------------------------------------------------

\* _call_method: ret is the JSON string or None; calls is the remote call made
call_method(p, method_name, params, reply) ==
    IF p = "none" THEN [ret |-> None, calls |-> << >>]
    ELSE [ret   |-> IF reply.raises THEN None ELSE Some(reply.text),
          calls |-> <<[method |-> method_name, params |-> params, reply |-> reply.kind]>>]

\* "if not x" for what _call_method returned: None or the empty string
Falsy(ret) == ret = None \/ ret[1].chars = "empty"

RECURSIVE details_loop(_, _, _, _, _)
\* the for loop of get_all_windows_with_details, from entry i on
details_loop(p, ws, basic_windows, drs, i) ==
    IF i > Len(basic_windows)
    THEN [detailed |-> << >>, calls |-> << >>, raised |-> "none"]
    ELSE
      LET win_id == basic_windows[i].id
      IN  IF ~Truthy(win_id) THEN details_loop(p, ws, basic_windows, drs, i + 1)
          ELSE IF ~VariantU(win_id[1]).ok
          THEN [detailed |-> << >>, calls |-> << >>, raised |-> "OverflowError"]
          ELSE
            LET r == call_method(p, "GetDetails", <<VariantU(win_id[1]).v>>,
                                 BusReply(drs[i], ExtGetDetails(ws, win_id[1])))
                rest == details_loop(p, ws, basic_windows, drs, i + 1)
                got  == IF ~Falsy(r.ret) /\ JsonLoads(r.ret[1]).ok
                        THEN <<JsonLoads(r.ret[1]).doc>> ELSE << >>
            IN  [detailed |-> got \o rest.detailed,
                 calls    |-> r.calls \o rest.calls,
                 raised   |-> rest.raised]

\* get_all_windows_with_details giving up (None) when any GetDetails fails
get_all_windows_or_none(p, ws, lr, drs) ==
    LET r == call_method(p, "List", << >>, BusReply(lr, ExtList(ws)))
    IN  IF Falsy(r.ret) \/ ~JsonLoads(r.ret[1]).ok
        THEN [ret |-> None, calls |-> r.calls, raised |-> "none"]
        ELSE LET l == details_loop(p, ws, JsonLoads(r.ret[1]).doc, drs, 1)
             IN  [ret    |-> IF Len(l.detailed) + 1 < Len(r.calls \o l.calls)
                             THEN None ELSE Some(l.detailed),
                  calls  |-> r.calls \o l.calls,
                  raised |-> l.raised]

get_all_windows_with_details(p, ws, lr, drs) ==
    LET r == call_method(p, "List", << >>, BusReply(lr, ExtList(ws)))
    IN  IF Falsy(r.ret) \/ ~JsonLoads(r.ret[1]).ok
        THEN [ret |-> None, calls |-> r.calls, raised |-> "none"]
        ELSE LET l == details_loop(p, ws, JsonLoads(r.ret[1]).doc, drs, 1)
             IN  [ret    |-> Some(l.detailed),
                  calls  |-> r.calls \o l.calls,
                  raised |-> l.raised]

\* action_map with Close sent without its boolean argument
action_map_close_bare(win_id) ==
    << [action |-> <<"a", "c", "t", "i", "v", "a", "t", "e">>,   method |-> "Activate",   params |-> <<VariantU(win_id).v>>],
       [action |-> <<"c", "l", "o", "s", "e">>,      method |-> "Close",      params |-> <<VariantU(win_id).v>>],
       [action |-> <<"m", "a", "x", "i", "m", "i", "z", "e">>,   method |-> "Maximize",   params |-> <<VariantU(win_id).v>>],
       [action |-> <<"u", "n", "m", "a", "x", "i", "m", "i", "z", "e">>, method |-> "Unmaximize", params |-> <<VariantU(win_id).v>>],
       [action |-> <<"m", "i", "n", "i", "m", "i", "z", "e">>,   method |-> "Minimize",   params |-> <<VariantU(win_id).v>>] >>

action_map(win_id) ==
    << [action |-> <<"a", "c", "t", "i", "v", "a", "t", "e">>,   method |-> "Activate",   params |-> <<VariantU(win_id).v>>],
       [action |-> <<"c", "l", "o", "s", "e">>,      method |-> "Close",
        params |-> <<VariantU(win_id).v, VariantB(FALSE)>>],
       [action |-> <<"m", "a", "x", "i", "m", "i", "z", "e">>,   method |-> "Maximize",   params |-> <<VariantU(win_id).v>>],
       [action |-> <<"u", "n", "m", "a", "x", "i", "m", "i", "z", "e">>, method |-> "Unmaximize", params |-> <<VariantU(win_id).v>>],
       [action |-> <<"m", "i", "n", "i", "m", "i", "z", "e">>,   method |-> "Minimize",   params |-> <<VariantU(win_id).v>>] >>

execute_action(p, action, win_id, kind) ==
    IF ~VariantU(win_id).ok
    THEN [calls |-> << >>, raised |-> "OverflowError"]
    ELSE
      LET m    == action_map(win_id)
          hits == {i \in 1..Len(m) : m[i].action = action}
      IN  IF hits # {}
          THEN [calls  |-> call_method(p, m[SetMin(hits)].method, m[SetMin(hits)].params,
                                       BusReply(kind, << >>)).calls,
                raised |-> "none"]
          ELSE [calls |-> << >>, raised |-> "none"]

\* ------------------------------------------------------------------------
\* WindowCommander
\* ------------------------------------------------------------------------

keywords == <<<<"w">>, <<"w", "i", "n">>, <<"w", "i", "n", "d", "o", "w">>>>

SearchResult(id, title, description, icon, score, offset) ==
    [id |-> id, title |-> title, description |-> description, icon |-> icon,
     score |-> score, fuzzy |-> FALSE, offset |-> offset]

\* the first keyword the lower-cased query starts with, followed by a space
trigger_word(query) ==
    LET hits == {k \in 1..Len(keywords) : StartsWith(Lower(query), keywords[k] \o <<" ">>)}
    IN  IF hits = {} THEN << >> ELSE keywords[SetMin(hits)] \o <<" ">>

search_term(query) ==
    Lower(Strip(SubSeq(query, Len(trigger_word(query)) + 1, Len(query))))

ErrorResult ==
    SearchResult(<<"e", "r", "r", "o", "r", ":", "n", "o", "-", "c", "o", "n", "n", "e", "c", "t", "i", "o", "n">>, <<"W", "i", "n", "d", "o", "w", " ", "C", "o", "m", "m", "a", "n", "d", "e", "r", " ", "N", "o", "t", " ", "F", "o", "u", "n", "d", " ", "o", "r", " ", "F", "a", "i", "l", "e", "d">>,
                 <<"P", "l", "e", "a", "s", "e", " ", "e", "n", "s", "u", "r", "e", " ", "t", "h", "e", " ", "G", "N", "O", "M", "E", " ", "e", "x", "t", "e", "n", "s", "i", "o", "n", " ", "i", "s", " ", "e", "n", "a", "b", "l", "e", "d", ".">>, <<"d", "i", "a", "l", "o", "g", "-", "w", "a", "r", "n", "i", "n", "g">>, 100, 0)

\* is_maximized with a missing value counted as maximized
is_maximized_default_one(win) == Get(win.maximized, 1) > 0

\* win.get("maximized", 0) > 0
is_maximized(win) == Get(win.maximized, 0) > 0

\* what the body of the for loop of search yields for one window
window_results(win, term) ==
    LET title    == Get(win.title, <<"U", "n", "t", "i", "t", "l", "e", "d", " ", "W", "i", "n", "d", "o", "w">>)
        wm_class == Get(win.wm_class, <<"u", "n", "k", "n", "o", "w", "n">>)
        in_title == Find(Lower(title), term)
        in_class == Find(Lower(wm_class), term)
        offset   == IF in_title = -1 THEN in_class ELSE in_title
        win_id   == win.id
        unmax    == is_maximized(win)
        action_id   == IF unmax THEN <<"u", "n", "m", "a", "x", "i", "m", "i", "z", "e">> ELSE <<"m", "a", "x", "i", "m", "i", "z", "e">>
        action_name == IF unmax THEN <<"U", "n", "m", "a", "x", "i", "m", "i", "z", "e">> ELSE <<"M", "a", "x", "i", "m", "i", "z", "e">>
        icon_name   == IF unmax THEN <<"v", "i", "e", "w", "-", "r", "e", "s", "t", "o", "r", "e">> ELSE <<"v", "i", "e", "w", "-", "f", "u", "l", "l", "s", "c", "r", "e", "e", "n">>
    IN  IF offset = -1 THEN << >>
        ELSE IF ~Truthy(win_id) THEN << >>
        ELSE << SearchResult(<<"a", "c", "t", "i", "v", "a", "t", "e", ":">> \o Format(win_id[1]), title,
                             <<"A", "c", "t", "i", "v", "a", "t", "e", " ", "|", " ", "C", "l", "a", "s", "s", ":", " ">> \o wm_class, wm_class, 100, offset),
                SearchResult(<<"c", "l", "o", "s", "e", ":">> \o Format(win_id[1]), <<"C", "l", "o", "s", "e", ":", " ">> \o title,
                             <<"C", "l", "o", "s", "e", " ", "W", "i", "n", "d", "o", "w", " ", "|", " ", "C", "l", "a", "s", "s", ":", " ">> \o wm_class, <<"w", "i", "n", "d", "o", "w", "-", "c", "l", "o", "s", "e">>, 90, offset),
                SearchResult(action_id \o <<":">> \o Format(win_id[1]),
                             action_name \o <<":", " ">> \o title,
                             action_name \o <<" ", "W", "i", "n", "d", "o", "w", " ", "|", " ", "C", "l", "a", "s", "s", ":", " ">> \o wm_class,
                             icon_name, 80, offset) >>

RECURSIVE results_loop(_, _, _)
results_loop(windows, term, i) ==
    IF i > Len(windows) THEN << >>
    ELSE window_results(windows[i], term) \o results_loop(windows, term, i + 1)

\* is_none as "not windows": the empty list passes too
is_none_or_empty(windows) == windows = None \/ windows[1] = << >>

\* windows is None
is_none(windows) == windows = None

search(p, ws, query, lr, drs) ==
    IF trigger_word(query) = << >>
    THEN [results |-> << >>, calls |-> << >>, fetched |-> None, raised |-> "none"]
    ELSE
      LET g == get_all_windows_with_details(p, ws, lr, drs)
      IN  IF g.raised # "none"
          THEN [results |-> << >>, calls |-> g.calls, fetched |-> None,
                raised |-> g.raised]
          ELSE IF is_none(g.ret)
          THEN [results |-> <<ErrorResult>>, calls |-> g.calls, fetched |-> g.ret,
                raised |-> "none"]
          ELSE [results |-> results_loop(g.ret[1], search_term(query), 1),
                calls   |-> g.calls,
                fetched |-> g.ret,
                raised  |-> "none"]

launch(p, id, kind) ==
    IF StartsWith(id, <<"e", "r", "r", "o", "r", ":">>) THEN [calls |-> << >>, raised |-> "none"]
    ELSE
      LET parts == Split(id, ":")
      IN  IF Len(parts) # 2 THEN [calls |-> << >>, raised |-> "none"]
          ELSE IF ~IntParse(parts[2]).ok THEN [calls |-> << >>, raised |-> "none"]
          ELSE execute_action(p, parts[1], IntParse(parts[2]).val, kind)

\* ------------------------------------------------------------------------
\* Inputs
\* ------------------------------------------------------------------------

Queries ==
    { <<"w", " ">>,  <<"W", " ", "F", "o", "x">>, <<"w", "i", "n", " ", "T", "E", "R", "M">>, <<"w", "i", "n", "d", "o", "w", " ", "x", " ", " ">>, <<"w", " ", " ", "k", "n", "o", "w">>, <<"w", " ", "l", "e", "d">>, <<"w", " ", "z", "z">>,
      <<"w", "x">>, <<"w", "i", "n", "d", "o", "w">>, <<"x", " ", "w", " ">> }

LaunchIds ==
    { <<"a", "c", "t", "i", "v", "a", "t", "e", ":", "2">>, <<"c", "l", "o", "s", "e", ":", "1">>, <<"m", "a", "x", "i", "m", "i", "z", "e", ":", "2">>, <<"u", "n", "m", "a", "x", "i", "m", "i", "z", "e", ":", "1">>, <<"m", "i", "n", "i", "m", "i", "z", "e", ":", "5">>,
      <<"a", "c", "t", "i", "v", "a", "t", "e", ":", "0">>, <<"c", "l", "o", "s", "e", ":", "4", "2", "9", "4", "9", "6", "7", "2", "9", "5">>, <<"a", "c", "t", "i", "v", "a", "t", "e", ":", "4", "2", "9", "4", "9", "6", "7", "2", "9", "6">>, <<"m", "i", "n", "i", "m", "i", "z", "e", ":", "-", "1">>,
      <<"c", "l", "o", "s", "e", ":", "+", "0", "0", "7">>, <<"m", "a", "x", "i", "m", "i", "z", "e", ":", " ", "1", "_", "0", " ">>, <<"f", "o", "o", ":", "3">>, <<"f", "o", "o", ":", "-", "1">>, <<"A", "c", "t", "i", "v", "a", "t", "e", ":", "2">>,
      <<"e", "r", "r", "o", "r", ":", "n", "o", "-", "c", "o", "n", "n", "e", "c", "t", "i", "o", "n">>, <<"e", "r", "r", "o", "r", ":", "7">>, <<"a", "c", "t", "i", "v", "a", "t", "e">>, <<"c", "l", "o", "s", "e", ":", "1", ":", "2">>, <<"c", "l", "o", "s", "e", ":", "x">>,
      <<"a", "c", "t", "i", "v", "a", "t", "e", ":">>, <<":", "3">> }

\* ------------------------------------------------------------------------
\* The state machine
\* ------------------------------------------------------------------------

\* WindowCommander.__init__: one connection attempt, which succeeds or fails
Init ==
    /\ proxy \in {"connected", "none"}
    /\ connects = 1
    /\ extWindows \in WindowLists
    /\ busUsed = FALSE
    /\ lastOp = "none"
    /\ lastArg = << >>
    /\ lastCalls = << >>
    /\ lastFetched = None
    /\ lastResults = << >>
    /\ lastRaised = "none"

\* the bus's answers are enumerated for the calls that are made only
AnswersCalls(ws, lr, drs, calls) ==
    /\ lr # "ok" => calls # << >>
    /\ \A i \in 1..Len(ws) :
         drs[i] # "ok" =>
            \E c \in 1..Len(calls) :
               /\ calls[c].method = "GetDetails"
               /\ Some(calls[c].params[1].value) = ws[i].id

\* the launcher, idle, calls search(query) and iterates it to its end
Search ==
    /\ lastOp = "none"
    /\ \E query \in Queries, lr \in ReplyKinds :
         \E drs \in (IF lr = "ok" THEN [1..Len(extWindows) -> ReplyKinds]
                     ELSE {[i \in 1..Len(extWindows) |-> "ok"]}) :
           \E r \in {search(proxy, extWindows, query, lr, drs)} :
              /\ AnswersCalls(extWindows, lr, drs, r.calls)
              /\ lastOp' = "search"
              /\ lastArg' = query
              /\ lastCalls' = r.calls
              /\ lastFetched' = r.fetched
              /\ lastResults' = r.results
              /\ lastRaised' = r.raised
              /\ busUsed' = (busUsed \/ r.calls # << >>)
              /\ UNCHANGED <<proxy, connects, extWindows>>

\* the launcher, idle, calls launch(window, id)
Launch ==
    /\ lastOp = "none"
    /\ \E id \in LaunchIds, kind \in ReplyKinds :
         \E r \in {launch(proxy, id, kind)} :
            /\ kind # "ok" => r.calls # << >>
            /\ lastOp' = "launch"
            /\ lastArg' = id
            /\ lastCalls' = r.calls
            /\ lastFetched' = None
            /\ lastResults' = << >>
            /\ lastRaised' = r.raised
            /\ busUsed' = (busUsed \/ r.calls # << >>)
            /\ UNCHANGED <<proxy, connects, extWindows>>

\* the handler has returned (or raised) and the launcher is idle again
Return ==
    /\ lastOp # "none"
    /\ lastOp' = "none"
    /\ lastArg' = << >>
    /\ lastCalls' = << >>
    /\ lastFetched' = None
    /\ lastResults' = << >>
    /\ lastRaised' = "none"
    /\ UNCHANGED <<proxy, connects, extWindows, busUsed>>

\* between two handler calls the desktop opens and closes windows
EnvChange ==
    /\ lastOp = "none"
    /\ \E ws \in WindowLists \ {extWindows} :
         /\ extWindows' = ws
         /\ UNCHANGED <<proxy, connects, busUsed,
                        lastOp, lastArg, lastCalls, lastFetched,
                        lastResults, lastRaised>>

Next == Search \/ Launch \/ Return \/ EnvChange

Spec == Init /\ [][Next]_vars

\* ------------------------------------------------------------------------
\* Vocabulary of the properties
\* ------------------------------------------------------------------------

TriggerKeywords == {<<"w">>, <<"w", "i", "n">>, <<"w", "i", "n", "d", "o", "w">>}

Triggered(q) == \E k \in TriggerKeywords : StartsWith(Lower(q), k \o <<" ">>)

\* the text of a triggered query after its keyword and the space
TextAfterKeyword(q) ==
    LET k == CHOOSE k \in TriggerKeywords : StartsWith(Lower(q), k \o <<" ">>)
    IN  SubSeq(q, Len(k) + 2, Len(q))

ErrorId == <<"e", "r", "r", "o", "r", ":", "n", "o", "-", "c", "o", "n", "n", "e", "c", "t", "i", "o", "n">>

HasErrorResult == \E i \in 1..Len(lastResults) : lastResults[i].id = ErrorId

ActionMethods == {"Activate", "Close", "Maximize", "Unmaximize", "Minimize"}

Forwarded ==
    { [action |-> <<"a", "c", "t", "i", "v", "a", "t", "e">>,   method |-> "Activate",   extra |-> << >>],
      [action |-> <<"c", "l", "o", "s", "e">>,      method |-> "Close",      extra |-> <<[type |-> "b", value |-> FALSE]>>],
      [action |-> <<"m", "a", "x", "i", "m", "i", "z", "e">>,   method |-> "Maximize",   extra |-> << >>],
      [action |-> <<"u", "n", "m", "a", "x", "i", "m", "i", "z", "e">>, method |-> "Unmaximize", extra |-> << >>],
      [action |-> <<"m", "i", "n", "i", "m", "i", "z", "e">>,   method |-> "Minimize",   extra |-> << >>] }

\* window ids an unsigned 32-bit integer holds, and one that it does not
U32Ids == {<<"0">>, <<"1">>, <<"2">>, <<"5">>, <<"1", "0">>, <<"4", "2", "9", "4", "9", "6", "7", "2", "9", "5">>}

NonNegativeIds == U32Ids \cup {<<"4", "2", "9", "4", "9", "6", "7", "2", "9", "6">>}

UArg(digits) == [type |-> "u", value |-> [neg |-> FALSE, digits |-> digits]]

\* launch("<action>:<n>") made the one call of that action, carrying n
OneCallFor(a, n) ==
    /\ Len(lastCalls) = 1
    /\ lastCalls[1].method = a.method
    /\ lastCalls[1].params = <<UArg(n)>> \o a.extra

NonEmptyId(opt) == opt # << >> /\ opt[1] # [neg |-> FALSE, digits |-> <<"0">>]

ListedWithId(w) == NonEmptyId(w.id)

ListSucceeded ==
    /\ lastCalls # << >>
    /\ lastCalls[1].method = "List"
    /\ lastCalls[1].reply = "ok"

ListStepFailed ==
    \/ proxy = "none"
    \/ /\ lastCalls # << >>
       /\ lastCalls[1].method = "List"
       /\ lastCalls[1].reply \in {"error", "empty", "garbage"}

\* the GetDetails calls of the last search for the window w
DetailsCalls(w) ==
    {c \in 1..Len(lastCalls) :
        /\ lastCalls[c].method = "GetDetails"
        /\ lastCalls[c].params = <<[type |-> "u", value |-> w.id[1]]>>}

DetailsArrived(w) ==
    ListedWithId(w) /\ \E c \in DetailsCalls(w) : lastCalls[c].reply = "ok"

\* the entries GetDetails is due for: those of the decoded list with an id
DueForDetails ==
    IF ListSucceeded THEN SelectSeq(extWindows, ListedWithId) ELSE << >>

\* the calls of a search that reaches the bus: List, then GetDetails per entry
ListThenDetails ==
    /\ lastCalls # << >>
    /\ lastCalls[1].method = "List"
    /\ lastCalls[1].params = << >>
    /\ Len(lastCalls) = 1 + Len(DueForDetails)
    /\ \A k \in 1..Len(DueForDetails) :
          /\ lastCalls[k + 1].method = "GetDetails"
          /\ lastCalls[k + 1].params = <<[type |-> "u", value |-> DueForDetails[k].id[1]]>>

Fetched == IF lastFetched = << >> THEN << >> ELSE lastFetched[1]

ResultActions == {<<"a", "c", "t", "i", "v", "a", "t", "e">>, <<"c", "l", "o", "s", "e">>, <<"m", "a", "x", "i", "m", "i", "z", "e">>, <<"u", "n", "m", "a", "x", "i", "m", "i", "z", "e">>, <<"m", "i", "n", "i", "m", "i", "z", "e">>}

\* the results of the last search that carry the window id of d, in order
ResultsOf(d) ==
    SelectSeq(lastResults,
              LAMBDA r : \E a \in ResultActions : r.id = a \o <<":">> \o Format(d.id[1]))

TitleOf(d) == IF d.title = << >> THEN <<"U", "n", "t", "i", "t", "l", "e", "d", " ", "W", "i", "n", "d", "o", "w">> ELSE d.title[1]

ClassOf(d) == IF d.wm_class = << >> THEN <<"u", "n", "k", "n", "o", "w", "n">> ELSE d.wm_class[1]

MaximizedOf(d) == IF d.maximized = << >> THEN 0 ELSE d.maximized[1]

Term == Lower(Strip(TextAfterKeyword(lastArg)))

OccursAt(s, t, i) == i + Len(t) <= Len(s) /\ SubSeq(s, i + 1, i + Len(t)) = t

Contains(s, t) == \E i \in 0..Len(s) : OccursAt(s, t, i)

FirstAt(s, t) ==
    CHOOSE i \in 0..Len(s) : OccursAt(s, t, i) /\ \A j \in 0..(i - 1) : ~OccursAt(s, t, j)

Matches(d) == Contains(Lower(TitleOf(d)), Term) \/ Contains(Lower(ClassOf(d)), Term)

ColonsOf(id) == {i \in 1..Len(id) : id[i] = ":"}

\* an id that is no forwardable command
NotForwardable(id) ==
    \/ StartsWith(id, <<"e", "r", "r", "o", "r", ":">>)
    \/ Cardinality(ColonsOf(id)) # 1
    \/ /\ Cardinality(ColonsOf(id)) = 1
       /\ LET c == CHOOSE i \in ColonsOf(id) : TRUE
          IN  \/ ~IntParse(SubSeq(id, c + 1, Len(id))).ok
              \/ SubSeq(id, 1, c - 1) \notin ResultActions

\* ------------------------------------------------------------------------
\* Properties
\* ------------------------------------------------------------------------

\* C1 as stated: with the proxy connected, launch("<a>:<n>") for each of the
\* five actions and every non-negative n makes exactly the one call of that
\* action carrying n (Close with False besides), and no other call.
C1_EveryNonNegativeId ==
    (lastOp = "launch" /\ proxy = "connected") =>
        \A a \in Forwarded, n \in NonNegativeIds :
            lastArg = a.action \o <<":">> \o n => OneCallFor(a, n)

\* C1 amended: the same for every n an unsigned 32-bit integer holds
\* (0 <= n <= 4294967295).
C1_EveryU32Id ==
    (lastOp = "launch" /\ proxy = "connected") =>
        \A a \in Forwarded, n \in U32Ids :
            lastArg = a.action \o <<":">> \o n => OneCallFor(a, n)

C1_Witness ==
    /\ lastOp = "launch"
    /\ proxy = "connected"
    /\ lastArg = <<"c", "l", "o", "s", "e", ":", "4", "2", "9", "4", "9", "6", "7", "2", "9", "5">>
    /\ Len(lastCalls) = 1
    /\ lastCalls[1].method = "Close"

\* C2 as stated: every fetched window that has an id and matches the search
\* term gets a result for each of activate, close, maximize (unmaximize when
\* it is maximized) and minimize, with id "<action>:<window id>".
C2_EveryActionOffered ==
    (lastOp = "search" /\ Triggered(lastArg) /\ lastFetched # << >>) =>
        \A i \in 1..Len(Fetched) :
            LET d == Fetched[i]
            IN  (NonEmptyId(d.id) /\ Matches(d)) =>
                  \A a \in {<<"a", "c", "t", "i", "v", "a", "t", "e">>, <<"c", "l", "o", "s", "e">>, <<"m", "i", "n", "i", "m", "i", "z", "e">>,
                            IF MaximizedOf(d) > 0 THEN <<"u", "n", "m", "a", "x", "i", "m", "i", "z", "e">> ELSE <<"m", "a", "x", "i", "m", "i", "z", "e">>} :
                     \E k \in 1..Len(lastResults) :
                        lastResults[k].id = a \o <<":">> \o Format(d.id[1])

\* C3 as stated: a search makes no remote call when its query carries no
\* trigger keyword, and otherwise one List call followed by one GetDetails
\* call per listed entry with an id, in list order; never an action method.
C3_CallsOfSearch ==
    lastOp = "search" =>
        /\ \A c \in 1..Len(lastCalls) : lastCalls[c].method \notin ActionMethods
        /\ ~Triggered(lastArg) => lastCalls = << >>
        /\ Triggered(lastArg) => ListThenDetails

\* C3 amended: a search makes no remote call when its query carries no
\* trigger keyword or the proxy is unavailable, and otherwise one List call
\* followed by one GetDetails call per entry, of the list decoded from that
\* very List reply, with an id, in list order; never an action method.
C3_CallsOfConnectedSearch ==
    lastOp = "search" =>
        /\ \A c \in 1..Len(lastCalls) : lastCalls[c].method \notin ActionMethods
        /\ (~Triggered(lastArg) \/ proxy = "none") => lastCalls = << >>
        /\ (Triggered(lastArg) /\ proxy = "connected") => ListThenDetails

C3_Witness ==
    /\ lastOp = "search"
    /\ proxy = "connected"
    /\ Len(extWindows) = 2
    /\ \E i \in 1..2 : ~NonEmptyId(extWindows[i].id)
    /\ Len(lastCalls) = 2
    /\ lastCalls[2].method = "GetDetails"

\* C4 as stated: when the connection attempt of the constructor failed, no
\* remote call and no reconnection is ever made, every triggered search yields
\* the error result alone, and every launch returns without effect.
C4_NoRecovery ==
    proxy = "none" =>
        /\ ~busUsed
        /\ connects = 1
        /\ lastCalls = << >>
        /\ (lastOp = "search" /\ Triggered(lastArg)) =>
              (Len(lastResults) = 1 /\ lastResults[1].id = ErrorId)
        /\ lastOp = "launch" => lastRaised = "none"

\* C5: a triggered search yields the error result exactly when the List step
\* failed (no proxy, bus error, empty reply, undecodable reply); the error
\* result is then the only result; an empty decoded list yields no result.
C5_ErrorIffListFailed ==
    (lastOp = "search" /\ Triggered(lastArg)) =>
        /\ HasErrorResult <=> ListStepFailed
        /\ HasErrorResult => Len(lastResults) = 1
        /\ (ListSucceeded /\ extWindows = << >>) => lastResults = << >>

C5_Witness ==
    /\ lastOp = "search"
    /\ Triggered(lastArg)
    /\ proxy = "connected"
    /\ lastCalls[1].reply = "garbage"
    /\ HasErrorResult

\* C6: when List succeeds, a failed GetDetails drops that window only: the
\* fetched list is a list (not None) of the details of the other listed
\* windows in List order, every listed window is asked for exactly once, and
\* no error result is yielded.
C6_FailedDetailsDropOneWindow ==
    (lastOp = "search" /\ ListSucceeded) =>
        /\ lastFetched # << >>
        /\ \A i \in 1..Len(extWindows) :
              ListedWithId(extWindows[i]) => Cardinality(DetailsCalls(extWindows[i])) = 1
        /\ LET arrived == SelectSeq(extWindows, DetailsArrived)
           IN  Fetched = [k \in 1..Len(arrived) |-> arrived[k].details]
        /\ ~HasErrorResult

C6_Witness ==
    /\ lastOp = "search"
    /\ ListSucceeded
    /\ Len(lastCalls) = 3
    /\ lastCalls[2].reply = "error"
    /\ lastCalls[3].reply = "ok"
    /\ Len(Fetched) = 1
    /\ Fetched[1] = extWindows[2].details

\* C7: a window that gets results gets exactly three, in this order:
\* activate (100), close (90), then unmaximize or maximize (80), unmaximize
\* exactly when its maximized value (0 when missing) is greater than 0.
C7_ThreeResultsPerWindow ==
    (lastOp = "search" /\ lastFetched # << >>) =>
        /\ \A i \in 1..Len(Fetched) :
              LET d  == Fetched[i]
                  rs == ResultsOf(d)
                  n  == Format(d.id[1])
              IN  (NonEmptyId(d.id) /\ rs # << >>) =>
                    /\ Len(rs) = 3
                    /\ rs[1].id = <<"a", "c", "t", "i", "v", "a", "t", "e", ":">> \o n /\ rs[1].score = 100
                    /\ rs[2].id = <<"c", "l", "o", "s", "e", ":">> \o n /\ rs[2].score = 90
                    /\ rs[3].score = 80
                    /\ rs[3].id = (IF MaximizedOf(d) > 0 THEN <<"u", "n", "m", "a", "x", "i", "m", "i", "z", "e", ":">> ELSE <<"m", "a", "x", "i", "m", "i", "z", "e", ":">>) \o n
        /\ \A k \in 1..Len(lastResults) :
              \E i \in 1..Len(Fetched) :
                 /\ NonEmptyId(Fetched[i].id)
                 /\ \E j \in 1..Len(ResultsOf(Fetched[i])) :
                       ResultsOf(Fetched[i])[j] = lastResults[k]

C7_Witness ==
    /\ lastOp = "search"
    /\ Len(lastResults) = 6
    /\ lastResults[3].id = <<"u", "n", "m", "a", "x", "i", "m", "i", "z", "e", ":", "1">>
    /\ lastResults[6].id = <<"m", "a", "x", "i", "m", "i", "z", "e", ":", "4", "2", "9", "4", "9", "6", "7", "2", "9", "5">>

\* C8: a fetched window with an id gets results exactly when the lower-cased,
\* stripped text after the keyword occurs in its lower-cased title (default
\* "Untitled Window") or class (default "unknown"); the offset of its results
\* is the first match in the title, or else the first match in the class.
C8_MatchAndOffset ==
    (lastOp = "search" /\ Triggered(lastArg) /\ lastFetched # << >>) =>
        \A i \in 1..Len(Fetched) :
            LET d  == Fetched[i]
                rs == ResultsOf(d)
                lt == Lower(TitleOf(d))
                lc == Lower(ClassOf(d))
            IN  NonEmptyId(d.id) =>
                  /\ rs # << >> <=> Matches(d)
                  /\ \A k \in 1..Len(rs) :
                        rs[k].offset = IF Contains(lt, Term) THEN FirstAt(lt, Term)
                                       ELSE FirstAt(lc, Term)

C8_Witness ==
    /\ lastOp = "search"
    /\ lastArg = <<"w", "i", "n", "d", "o", "w", " ", "x", " ", " ">>
    /\ Len(lastResults) = 6
    /\ lastResults[1].id = <<"a", "c", "t", "i", "v", "a", "t", "e", ":", "2">> /\ lastResults[1].offset = 2
    /\ lastResults[4].id = <<"a", "c", "t", "i", "v", "a", "t", "e", ":", "1">> /\ lastResults[4].offset = 0

\* C9 as stated: launch makes no remote call and raises no exception for an
\* id that is no forwardable command (an "error:" id, an id without exactly
\* one ":", a part after the ":" that is no integer, an unknown action name).
C9_BadIdIsHarmless ==
    (lastOp = "launch" /\ NotForwardable(lastArg)) =>
        /\ lastCalls = << >>
        /\ lastRaised = "none"

====
